---- MODULE Spec2Model ----
(***************************************************************************)
(* Model of the MySQL -> OSS daily backup script (src/main.py).            *)
(*                                                                         *)
(* File names and object keys are sequences of one-character strings, so   *)
(* that name construction (f-strings, with_suffix, strftime) and name      *)
(* parsing (split, replace, strptime) are computed, character by           *)
(* character, the way the script computes them.                            *)
(*                                                                         *)
(* A datetime is a record [ord, tod]: ord is the proleptic Gregorian       *)
(* ordinal of the calendar day (date.toordinal), tod the time elapsed      *)
(* since midnight, in hours.  A value parsed by strptime("%Y%m%d") has     *)
(* tod = 0.                                                                *)
(***************************************************************************)
EXTENDS Integers, Sequences, FiniteSets, TLC

(***************************************************************************)
(* Bounds of the model.                                                    *)
(***************************************************************************)
MaxRuns == 2          \* process invocations in one behaviour
MaxDays == 1          \* calendar days the clock may advance past the first

(***************************************************************************)
(* Characters and strings.                                                 *)
(***************************************************************************)
DigitChars == <<"0", "1", "2", "3", "4", "5", "6", "7", "8", "9">>

IsDigit(c) == \E i \in 1..10 : DigitChars[i] = c

DigitVal(c) == (CHOOSE i \in 1..10 : DigitChars[i] = c) - 1

DigitChar(n) == DigitChars[n + 1]

\* s[i..] starts with p
StartsWithAt(s, i, p) ==
    /\ i + Len(p) - 1 <= Len(s)
    /\ \A k \in 1..Len(p) : s[i + k - 1] = p[k]

\* str.endswith
EndsWith(s, p) ==
    /\ Len(p) <= Len(s)
    /\ StartsWithAt(s, Len(s) - Len(p) + 1, p)

\* index of the last occurrence of character c in s, 0 if none
LastIndexOf(s, c) ==
    IF \E i \in 1..Len(s) : s[i] = c
    THEN CHOOSE i \in 1..Len(s) : s[i] = c /\ \A j \in (i+1)..Len(s) : s[j] # c
    ELSE 0

\* str.split(c)[-1]: what follows the last c, the whole string without c
SplitLast(s, c) == SubSeq(s, LastIndexOf(s, c) + 1, Len(s))

\* str.replace(p, ""): every non-overlapping occurrence, left to right
RECURSIVE RemoveAllFrom(_, _, _)
RemoveAllFrom(s, i, p) ==
    IF i > Len(s) THEN << >>
    ELSE IF StartsWithAt(s, i, p) THEN RemoveAllFrom(s, i + Len(p), p)
    ELSE <<s[i]>> \o RemoveAllFrom(s, i + 1, p)

RemoveAll(s, p) == RemoveAllFrom(s, 1, p)

\* PurePath.name: the last component of a path
PathName(s) == SplitLast(s, "/")

\* PurePath.with_suffix: the last suffix of the name replaced by suf
WithSuffix(s, suf) ==
    LET dot == LastIndexOf(s, ".")
    IN  IF dot > 1 THEN SubSeq(s, 1, dot - 1) \o suf ELSE s \o suf

SqlSuffix == <<".", "s", "q", "l">>

GzSuffix == <<".", "s", "q", "l", ".", "g", "z">>

(***************************************************************************)
(* Calendar (datetime.py: _is_leap, _days_before_year, _days_in_month,     *)
(* _days_before_month, _ymd2ord) and the %Y%m%d conversions.               *)
(***************************************************************************)
IsLeap(y) == y % 4 = 0 /\ (y % 100 # 0 \/ y % 400 = 0)

DaysBeforeYear(y) ==
    LET p == y - 1 IN p * 365 + (p \div 4) - (p \div 100) + (p \div 400)

DaysInMonth(y, m) ==
    IF m = 2 THEN (IF IsLeap(y) THEN 29 ELSE 28)
    ELSE IF m \in {4, 6, 9, 11} THEN 30 ELSE 31

RECURSIVE DaysBeforeMonth(_, _)
DaysBeforeMonth(y, m) ==
    IF m = 1 THEN 0 ELSE DaysBeforeMonth(y, m - 1) + DaysInMonth(y, m - 1)

Ymd2Ord(y, m, d) == DaysBeforeYear(y) + DaysBeforeMonth(y, m) + d

\* the years in which the model's clock can stand
ClockYears == {2024}

Ord2Ymd(n) ==
    CHOOSE ymd \in ClockYears \X (1..12) \X (1..31) :
        /\ ymd[3] <= DaysInMonth(ymd[1], ymd[2])
        /\ Ymd2Ord(ymd[1], ymd[2], ymd[3]) = n

\* zero-padded decimal of width 2 and 4
Pad2(n) == <<DigitChar(n \div 10), DigitChar(n % 10)>>

Pad4(n) == <<DigitChar(n \div 1000), DigitChar((n \div 100) % 10)>> \o Pad2(n % 100)

\* datetime.strftime("%Y%m%d")
Strftime(dt) ==
    LET ymd == Ord2Ymd(dt.ord) IN Pad4(ymd[1]) \o Pad2(ymd[2]) \o Pad2(ymd[3])

ParseError == -1

AllDigits(s) == \A i \in 1..Len(s) : IsDigit(s[i])

RECURSIVE Decimal(_)
Decimal(s) ==
    IF s = << >> THEN 0 ELSE 10 * Decimal(SubSeq(s, 1, Len(s) - 1)) + DigitVal(s[Len(s)])

\* %m: 1[0-2] | 0[1-9] | [1-9]
MonthField(s) ==
    /\ Len(s) \in {1, 2}
    /\ AllDigits(s)
    /\ Decimal(s) \in 1..12
    /\ Len(s) = 1 => s[1] # "0"

\* %d: 3[01] | [12]\d | 0[1-9] | [1-9] | " "[1-9]
DayField(s) ==
    \/ /\ Len(s) \in {1, 2}
       /\ AllDigits(s)
       /\ Decimal(s) \in 1..31
       /\ Len(s) = 1 => s[1] # "0"
    \/ /\ Len(s) = 2
       /\ s[1] = " "
       /\ IsDigit(s[2])
       /\ s[2] # "0"

DayValue(s) == IF s[1] = " " THEN DigitVal(s[2]) ELSE Decimal(s)

\* datetime.strptime(s, "%Y%m%d"), as the ordinal of the parsed day;
\* ParseError stands for the ValueError it raises.  The month takes two
\* characters when the rest still parses, else one (regex alternation order).
Strptime(s) ==
    IF Len(s) < 6 \/ ~AllDigits(SubSeq(s, 1, 4)) THEN ParseError
    ELSE
      LET y    == Decimal(SubSeq(s, 1, 4))
          rest == SubSeq(s, 5, Len(s))
          ok(k) == /\ k < Len(rest)
                   /\ MonthField(SubSeq(rest, 1, k))
                   /\ DayField(SubSeq(rest, k + 1, Len(rest)))
          k    == IF ok(2) THEN 2 ELSE IF ok(1) THEN 1 ELSE 0
      IN  IF k = 0 THEN ParseError
          ELSE
            LET m == Decimal(SubSeq(rest, 1, k))
                d == DayValue(SubSeq(rest, k + 1, Len(rest)))
            IN  IF y < 1 \/ d > DaysInMonth(y, m) THEN ParseError
                ELSE Ymd2Ord(y, m, d)

\* f.name.split("_")[-1].replace(".sql.gz", "") parsed with "%Y%m%d"
FileDate(name) == Strptime(RemoveAll(SplitLast(name, "_"), GzSuffix))

\* datetime - timedelta(days=n)
MinusDays(dt, n) == [ord |-> dt.ord - n, tod |-> dt.tod]

\* datetime < datetime
Before(a, b) == a.ord < b.ord \/ (a.ord = b.ord /\ a.tod < b.tod)

\* the datetime strptime returns for a day: midnight of that day
Midnight(ord) == [ord |-> ord, tod |-> 0]

(***************************************************************************)
(* Configuration (CONFIG and the environment, lines 20-38 and 166-172).    *)
(***************************************************************************)
RequiredEnvs ==
    {"MYSQL_USER", "MYSQL_PASSWORD", "MYSQL_DATABASE", "OSS_ACCESS_KEY_ID",
     "OSS_ACCESS_KEY_SECRET", "OSS_ENDPOINT", "OSS_BUCKET"}

\* os.getenv of a required variable: a value, the empty string, or None
EnvValues == {"value", "", "None"}

\* CONFIG["mysql_database"] when it is set
DbName == <<"d", "b">>

\* CONFIG["oss_prefix"], the default
OssPrefix == <<"m", "y", "s", "q", "l", "-", "b", "a", "c", "k", "u", "p", "s", "/">>

\* values of KEEP_LOCAL_DAYS and KEEP_OSS_DAYS the model draws from
KeepLocalChoices == {0, 1, 3}

KeepOssChoices == {30}

\* times of day (hours since midnight) at which the clock is observed
TodSamples == {0, 12}

\* the day of the first invocation: 2024-03-10
StartOrd == Ymd2Ord(2024, 3, 10)

(***************************************************************************)
(* Artifact names.                                                         *)
(***************************************************************************)
\* f"{CONFIG['mysql_database']}_{self.today}.sql"
DumpFile(td) == DbName \o <<"_">> \o td \o SqlSuffix

\* dump_file.with_suffix(".sql.gz")
GzFile(td) == WithSuffix(DumpFile(td), GzSuffix)

\* f"{CONFIG['oss_prefix']}{file_path.name}"
ObjectName(file) == OssPrefix \o PathName(file)

\* Path.glob("*.sql.gz") applied to one name
GlobMatch(name) == EndsWith(name, GzSuffix)

\* files found in the local backup directory before the first invocation
Db20240306 == DbName \o <<"_", "2", "0", "2", "4", "0", "3", "0", "6">> \o GzSuffix

Db20240307 == DbName \o <<"_", "2", "0", "2", "4", "0", "3", "0", "7">> \o GzSuffix

BackupNoDate == <<"b", "a", "c", "k", "u", "p">> \o GzSuffix

NotesTxt == <<"n", "o", "t", "e", "s", ".", "t", "x", "t">>

LocalSeeds == {Db20240306, Db20240307, BackupNoDate}

\* objects found under the prefix before the first invocation
Key20240208 == OssPrefix \o DbName \o <<"_", "2", "0", "2", "4", "0", "2", "0", "8">> \o GzSuffix

Key20240209 == OssPrefix \o DbName \o <<"_", "2", "0", "2", "4", "0", "2", "0", "9">> \o GzSuffix

KeyNoDate == OssPrefix \o BackupNoDate

KeyNotes == OssPrefix \o NotesTxt

RemoteSeeds == {Key20240208, Key20240209, KeyNoDate, KeyNotes}

\* content of a file or object: who wrote it (0: before the first
\* invocation) and whether the write was completed
Content(r, st) == [run |-> r, state |-> st]

\* a store as a function from the names it holds to their content
Put(store, name, c) == [n \in DOMAIN store \cup {name} |-> IF n = name THEN c ELSE store[n]]

Remove(store, name) == [n \in DOMAIN store \ {name} |-> store[n]]

SeedStore(names) == [n \in names |-> Content(0, "complete")]

(***************************************************************************)
(* State.                                                                  *)
(***************************************************************************)
VARIABLES
    env,            \* os.getenv of each required variable
    keepLocal,      \* CONFIG["keep_local_days"]
    keepOss,        \* CONFIG["keep_oss_days"]
    now,            \* the wall clock, datetime.now()
    run,            \* number of the current process invocation
    proc,           \* what the invocation runs: the script or clean_oss_backups
    pc,             \* position of the invocation in the code
    today,          \* self.today
    local,          \* files of CONFIG["local_backup_dir"]
    remote,         \* objects of the bucket
    cutoff,         \* cutoff_date of the sweep in progress
    todo,           \* entries the sweep's iterator has still to yield
    result,         \* return value of execute()
    exitStatus,     \* status passed to exit(), -1 while the process runs
    steps,          \* history: the steps this invocation has started
    fault,          \* history: the error that was raised in this invocation
    attempted,      \* history: names whose deletion this invocation has called
    localAtStart,   \* history: local when the invocation started
    remoteAtStart,  \* history: remote when the invocation started
    prev,           \* history: how the previous invocation ended
    prevSweep       \* history: the sweep of the previous invocation

vars == <<env, keepLocal, keepOss, now, run, proc, pc, today, local, remote,
          cutoff, todo, result, exitStatus, steps, fault, attempted,
          localAtStart, remoteAtStart, prev, prevSweep>>

config == <<env, keepLocal, keepOss>>

history == <<localAtStart, remoteAtStart, prev, prevSweep>>

\* what an invocation leaves in prev
Outcome(p, r, td) == [proc |-> p, result |-> r, today |-> td]

\* the calendar day on which the sweep of this invocation read the clock
\* (lines 119 and 134), 0 when it has not
SweepDay ==
    IF \E i \in DOMAIN steps : steps[i] = "clean" THEN cutoff.ord + keepLocal
    ELSE IF \E i \in DOMAIN steps : steps[i] = "clean_oss" THEN cutoff.ord + keepOss
    ELSE 0

\* names whose unlink or delete_object raised (lines 129 and 147): the
\* call was made and the entry is still there
FailedDeletes == {n \in attempted : n \in DOMAIN local \cup DOMAIN remote}

\* what an invocation leaves in prevSweep: the day of its sweep and whether
\* one of its deletes failed
SweepOutcome(d, f) == [day |-> d, failed |-> f]

\* variant: "os.getenv(var) is None" in place of "not os.getenv(var)"
MissingNoneOnly == {v \in RequiredEnvs : env[v] = "None"}

\* required variables for which "not os.getenv(var)" holds
Missing == {v \in RequiredEnvs : env[v] # "value"}

NoDate == [ord |-> 0, tod |-> 0]

\* what can be invoked: the script always; clean_oss_backups, which has no
\* caller in the script, by a caller that has the whole configuration
Callable == IF Missing = {} THEN {"backup", "oss"} ELSE {"backup"}

FirstPc(p) == IF p = "backup" THEN "main" ELSE "oss_init"

Init ==
    /\ env \in {e \in [RequiredEnvs -> EnvValues] :
                  Cardinality({v \in RequiredEnvs : e[v] # "value"}) <= 1}
    /\ keepLocal \in KeepLocalChoices
    /\ keepOss \in KeepOssChoices
    /\ \E t \in TodSamples : now = [ord |-> StartOrd, tod |-> t]
    /\ run = 1
    /\ proc \in Callable
    /\ pc = FirstPc(proc)
    /\ today = << >>
    /\ \E S \in SUBSET LocalSeeds : local = SeedStore(S \cup {NotesTxt})
    /\ remote = SeedStore(RemoteSeeds)
    /\ cutoff = NoDate
    /\ todo = {}
    /\ result = "none"
    /\ exitStatus = -1
    /\ steps = << >>
    /\ fault = "none"
    /\ attempted = {}
    /\ localAtStart = local
    /\ remoteAtStart = remote
    /\ prev = Outcome("none", "none", << >>)
    /\ prevSweep = SweepOutcome(0, FALSE)

(***************************************************************************)
(* The clock.                                                              *)
(***************************************************************************)
\* datetime.now() is read at lines 54, 119 and 134 only; time that passes
\* elsewhere is time that has passed when the next of these lines is reached
ClockReadPcs == {"init", "oss_init", "clean", "oss_clean"}

Tick ==
    /\ pc \in ClockReadPcs
    /\ \/ \E t \in TodSamples : t > now.tod /\ now' = [now EXCEPT !.tod = t]
       \/ /\ now.ord < StartOrd + MaxDays
          /\ \E t \in TodSamples : now' = [ord |-> now.ord + 1, tod |-> t]
    /\ UNCHANGED <<config, run, proc, pc, today, local, remote, cutoff, todo,
                   result, exitStatus, steps, fault, attempted, history>>

(***************************************************************************)
(* __main__ (lines 164-179).                                               *)
(***************************************************************************)
\* lines 172-175: a required variable is missing, exit(1)
MainMissing ==
    /\ pc = "main"
    /\ Missing # {}
    /\ exitStatus' = 1
    /\ pc' = "exited"
    /\ UNCHANGED <<config, now, run, proc, today, local, remote, cutoff, todo,
                   result, steps, fault, attempted, history>>

\* lines 172-177: nothing is missing, go on to BackupManager()
MainOk ==
    /\ pc = "main"
    /\ Missing = {}
    /\ pc' = "init"
    /\ UNCHANGED <<config, now, run, proc, today, local, remote, cutoff, todo,
                   result, exitStatus, steps, fault, attempted, history>>

\* lines 53-67: BackupManager.__init__
Construct ==
    /\ pc \in {"init", "oss_init"}
    /\ today' = Strftime(now)
    /\ pc' = IF pc = "init" THEN "dump" ELSE "oss_clean"
    /\ UNCHANGED <<config, now, run, proc, local, remote, cutoff, todo,
                   result, exitStatus, steps, fault, attempted, history>>

\* lines 178-179: exit(0 if success else 1)
Exit ==
    /\ pc = "returned"
    /\ exitStatus' = IF result = "True" THEN 0 ELSE 1
    /\ pc' = "exited"
    /\ UNCHANGED <<config, now, run, proc, today, local, remote, cutoff, todo,
                   result, steps, fault, attempted, history>>

\* the next invocation, of the script or of clean_oss_backups alone
Invoke ==
    /\ pc = "exited"
    /\ run < MaxRuns
    /\ run' = run + 1
    /\ proc' \in Callable
    /\ pc' = FirstPc(proc')
    /\ today' = << >>
    /\ cutoff' = NoDate
    /\ todo' = {}
    /\ result' = "none"
    /\ exitStatus' = -1
    /\ steps' = << >>
    /\ fault' = "none"
    /\ attempted' = {}
    /\ localAtStart' = local
    /\ remoteAtStart' = remote
    /\ prev' = Outcome(proc, result, today)
    /\ prevSweep' = SweepOutcome(SweepDay, FailedDeletes # {})
    /\ UNCHANGED <<config, now, local, remote>>

(***************************************************************************)
(* BackupManager.run_mysqldump (lines 69-104).                             *)
(***************************************************************************)
\* lines 76-89: the dump file is opened for writing and mysqldump exits 0
DumpOk ==
    /\ pc = "dump"
    /\ steps' = Append(steps, "dump")
    /\ local' = Put(local, DumpFile(today), Content(run, "complete"))
    /\ pc' = "compress"
    /\ UNCHANGED <<config, now, run, proc, today, remote, cutoff, todo,
                   result, exitStatus, fault, attempted, history>>

\* lines 76-89: mysqldump exits non-zero, RuntimeError is raised
DumpFail ==
    /\ pc = "dump"
    /\ steps' = Append(steps, "dump")
    /\ local' = Put(local, DumpFile(today), Content(run, "partial"))
    /\ fault' = "dump"
    /\ pc' = "except"
    /\ UNCHANGED <<config, now, run, proc, today, remote, cutoff, todo,
                   result, exitStatus, attempted, history>>

\* lines 92-94: the dump is written through gzip to the .sql.gz file
CompressOk ==
    /\ pc = "compress"
    /\ steps' = Append(steps, "compress")
    /\ local' = Put(local, GzFile(today), Content(run, "complete"))
    /\ pc' = "unlink"
    /\ UNCHANGED <<config, now, run, proc, today, remote, cutoff, todo,
                   result, exitStatus, fault, attempted, history>>

\* variant: the I/O error of the compression is swallowed, run_mysqldump
\* goes on to line 96
CompressFailGoesOn ==
    /\ pc = "compress"
    /\ steps' = Append(steps, "compress")
    /\ local' = Put(local, GzFile(today), Content(run, "partial"))
    /\ fault' = "compress"
    /\ pc' = "unlink"
    /\ UNCHANGED <<config, now, run, proc, today, remote, cutoff, todo,
                   result, exitStatus, attempted, history>>

\* lines 92-94: an I/O error, either when the .sql.gz file is opened (the
\* file is left as it was) or after it was opened "wb" (it is left truncated
\* or partly written)
CompressFail ==
    /\ pc = "compress"
    /\ steps' = Append(steps, "compress")
    /\ \/ local' = local
       \/ local' = Put(local, GzFile(today), Content(run, "partial"))
    /\ fault' = "compress"
    /\ pc' = "except"
    /\ UNCHANGED <<config, now, run, proc, today, remote, cutoff, todo,
                   result, exitStatus, attempted, history>>

\* variant: line 96 is missing, the dump file is left behind
UnlinkDumpSkipped ==
    /\ pc = "unlink"
    /\ steps' = Append(steps, "unlink_dump")
    /\ pc' = "upload"
    /\ UNCHANGED <<config, now, run, proc, today, local, remote, cutoff, todo,
                   result, exitStatus, fault, attempted, history>>

\* lines 96-98: dump_file.unlink(), return gz_file
UnlinkDump ==
    /\ pc = "unlink"
    /\ steps' = Append(steps, "unlink_dump")
    /\ local' = Remove(local, DumpFile(today))
    /\ pc' = "upload"
    /\ UNCHANGED <<config, now, run, proc, today, remote, cutoff, todo,
                   result, exitStatus, fault, attempted, history>>

\* variant: the handler re-raises without removing the dump file
ExceptKeepDump ==
    /\ pc = "except"
    /\ steps' = Append(steps, "except_unlink")
    /\ result' = "False"
    /\ pc' = "returned"
    /\ UNCHANGED <<config, now, run, proc, today, local, remote, cutoff, todo,
                   exitStatus, fault, attempted, history>>

\* lines 100-104: the handler removes the dump file and re-raises;
\* lines 158-160: execute catches and returns False
ExceptUnlink ==
    /\ pc = "except"
    /\ steps' = Append(steps, "except_unlink")
    /\ local' = IF DumpFile(today) \in DOMAIN local
                THEN Remove(local, DumpFile(today)) ELSE local
    /\ result' = "False"
    /\ pc' = "returned"
    /\ UNCHANGED <<config, now, run, proc, today, remote, cutoff, todo,
                   exitStatus, fault, attempted, history>>

(***************************************************************************)
(* BackupManager.upload_to_oss (lines 106-115).                            *)
(***************************************************************************)
\* lines 108-112: put_object_from_file succeeds
UploadOk ==
    /\ pc = "upload"
    /\ steps' = Append(steps, "upload")
    /\ remote' = Put(remote, ObjectName(GzFile(today)), local[GzFile(today)])
    /\ pc' = "clean"
    /\ UNCHANGED <<config, now, run, proc, today, local, cutoff, todo,
                   result, exitStatus, fault, attempted, history>>

\* variant: a failed put is attempted a second time before the error is raised
UploadFailRetried ==
    /\ pc = "upload"
    /\ steps' = Append(steps, "upload")
    /\ IF \E i \in DOMAIN steps : steps[i] = "upload"
       THEN /\ fault' = "upload"
            /\ result' = "False"
            /\ pc' = "returned"
       ELSE UNCHANGED <<fault, result, pc>>
    /\ UNCHANGED <<config, now, run, proc, today, local, remote, cutoff, todo,
                   exitStatus, attempted, history>>

\* variant: the upload error is logged and not re-raised, execute goes on
UploadFailThenClean ==
    /\ pc = "upload"
    /\ steps' = Append(steps, "upload")
    /\ fault' = "upload"
    /\ pc' = "clean"
    /\ UNCHANGED <<config, now, run, proc, today, local, remote, cutoff, todo,
                   result, exitStatus, attempted, history>>

\* variant: the upload error handler removes the local .sql.gz file
UploadFailRemovesLocal ==
    /\ pc = "upload"
    /\ steps' = Append(steps, "upload")
    /\ local' = Remove(local, GzFile(today))
    /\ fault' = "upload"
    /\ result' = "False"
    /\ pc' = "returned"
    /\ UNCHANGED <<config, now, run, proc, today, remote, cutoff, todo,
                   exitStatus, attempted, history>>

\* lines 113-115: put_object_from_file raises, the error is re-raised;
\* lines 158-160: execute catches and returns False
UploadFail ==
    /\ pc = "upload"
    /\ steps' = Append(steps, "upload")
    /\ fault' = "upload"
    /\ result' = "False"
    /\ pc' = "returned"
    /\ UNCHANGED <<config, now, run, proc, today, local, remote, cutoff, todo,
                   exitStatus, attempted, history>>

(***************************************************************************)
(* BackupManager.clean_local_backups (lines 117-130).                      *)
(***************************************************************************)
\* line 119
LocalCutoff(t) == MinusDays(t, keepLocal)

\* line 125
Expired(name, c) == Before(Midnight(FileDate(name)), c)

\* lines 119-121: the cutoff is computed and the directory is listed
CleanLocalStart ==
    /\ pc = "clean"
    /\ steps' = Append(steps, "clean")
    /\ cutoff' = LocalCutoff(now)
    /\ todo' = {n \in DOMAIN local : GlobMatch(n)}
    /\ pc' = "sweep"
    /\ UNCHANGED <<config, now, run, proc, today, local, remote,
                   result, exitStatus, fault, attempted, history>>

\* lines 122-123: strptime raises ValueError on the next file, nothing in
\* clean_local_backups catches it; lines 158-160: execute returns False
SweepLocalBadName ==
    /\ pc = "sweep"
    /\ \E f \in todo :
         /\ FileDate(f) = ParseError
         /\ todo' = todo \ {f}
    /\ fault' = "parse"
    /\ result' = "False"
    /\ pc' = "returned"
    /\ UNCHANGED <<config, now, run, proc, today, local, remote, cutoff,
                   exitStatus, steps, attempted, history>>

\* lines 122-130: the next file parses; it is unlinked when its date is
\* before the cutoff, and a failing unlink is logged
SweepLocalFile ==
    /\ pc = "sweep"
    /\ \E f \in todo :
         /\ FileDate(f) # ParseError
         /\ todo' = todo \ {f}
         /\ IF Expired(f, cutoff)
            THEN /\ attempted' = attempted \cup {f}
                 /\ \/ local' = Remove(local, f)
                    \/ local' = local
            ELSE UNCHANGED <<attempted, local>>
    /\ UNCHANGED <<config, now, run, proc, pc, today, remote, cutoff,
                   result, exitStatus, steps, fault, history>>

\* variant: line 156 is not commented out, execute goes on to clean_oss_backups
SweepLocalDoneThenOss ==
    /\ pc = "sweep"
    /\ todo = {}
    /\ pc' = "oss_clean"
    /\ UNCHANGED <<config, now, run, proc, today, local, remote, cutoff, todo,
                   result, exitStatus, steps, fault, attempted, history>>

\* lines 157 and 161: the loop is over, execute returns True
SweepLocalDone ==
    /\ pc = "sweep"
    /\ todo = {}
    /\ steps' = Append(steps, "done")
    /\ result' = "True"
    /\ pc' = "returned"
    /\ UNCHANGED <<config, now, run, proc, today, local, remote, cutoff, todo,
                   exitStatus, fault, attempted, history>>

(***************************************************************************)
(* BackupManager.clean_oss_backups (lines 132-148), invoked on its own.    *)
(***************************************************************************)
\* line 134
OssCutoff(t) == MinusDays(t, keepOss)

\* lines 134-136: the cutoff is computed, the objects under the prefix are
\* iterated
CleanOssStart ==
    /\ pc = "oss_clean"
    /\ steps' = Append(steps, "clean_oss")
    /\ cutoff' = OssCutoff(now)
    /\ todo' = {k \in DOMAIN remote : StartsWithAt(k, 1, OssPrefix)}
    /\ pc' = "oss_sweep"
    /\ UNCHANGED <<config, now, run, proc, today, local, remote,
                   result, exitStatus, fault, attempted, history>>

\* variant: the try of line 140 encloses the delete only, as in
\* clean_local_backups; a key that does not parse ends the sweep
SweepOssKeyUnguarded ==
    /\ pc = "oss_sweep"
    /\ \E k \in todo :
         /\ todo' = todo \ {k}
         /\ IF EndsWith(k, GzSuffix) /\ FileDate(PathName(k)) = ParseError
            THEN /\ fault' = "parse"
                 /\ pc' = "exited"
                 /\ UNCHANGED <<attempted, remote>>
            ELSE /\ UNCHANGED <<fault, pc>>
                 /\ IF EndsWith(k, GzSuffix) /\ Expired(PathName(k), cutoff)
                    THEN /\ attempted' = attempted \cup {k}
                         /\ \/ remote' = Remove(remote, k)
                            \/ remote' = remote
                    ELSE UNCHANGED <<attempted, remote>>
    /\ UNCHANGED <<config, now, run, proc, today, local, cutoff,
                   result, exitStatus, steps, history>>

\* lines 137-148: the next key; one that does not end in .sql.gz is passed
\* over, one that does not parse is logged, one before the cutoff is
\* deleted, and a failing delete is logged
SweepOssKey ==
    /\ pc = "oss_sweep"
    /\ \E k \in todo :
         /\ todo' = todo \ {k}
         /\ IF /\ EndsWith(k, GzSuffix)
               /\ FileDate(PathName(k)) # ParseError
               /\ Expired(PathName(k), cutoff)
            THEN /\ attempted' = attempted \cup {k}
                 /\ \/ remote' = Remove(remote, k)
                    \/ remote' = remote
            ELSE UNCHANGED <<attempted, remote>>
    /\ UNCHANGED <<config, now, run, proc, pc, today, local, cutoff,
                   result, exitStatus, steps, fault, history>>

\* the iterator is exhausted, clean_oss_backups returns
SweepOssDone ==
    /\ pc = "oss_sweep"
    /\ todo = {}
    /\ steps' = Append(steps, "done")
    /\ pc' = "exited"
    /\ UNCHANGED <<config, now, run, proc, today, local, remote, cutoff, todo,
                   result, exitStatus, fault, attempted, history>>

(***************************************************************************)
(* The specification.                                                      *)
(***************************************************************************)
Next ==
    \/ Tick
    \/ MainMissing
    \/ MainOk
    \/ Construct
    \/ DumpOk
    \/ DumpFail
    \/ CompressOk
    \/ CompressFail
    \/ UnlinkDump
    \/ ExceptUnlink
    \/ UploadOk
    \/ UploadFail
    \/ CleanLocalStart
    \/ SweepLocalBadName
    \/ SweepLocalFile
    \/ SweepLocalDone
    \/ CleanOssStart
    \/ SweepOssKey
    \/ SweepOssDone
    \/ Exit
    \/ Invoke

Spec == Init /\ [][Next]_vars

TypeOK ==
    /\ pc \in {"main", "init", "dump", "compress", "unlink", "except", "upload",
               "clean", "sweep", "returned", "exited", "oss_init", "oss_clean",
               "oss_sweep"}
    /\ result \in {"none", "True", "False"}
    /\ exitStatus \in {-1, 0, 1}
    /\ run \in 1..MaxRuns

(***************************************************************************)
(* Vocabulary of the properties.                                           *)
(***************************************************************************)
Started(s) == \E i \in DOMAIN steps : steps[i] = s

Returned == pc \in {"returned", "exited"}

\* a required setting is absent: unset or empty
SettingAbsent == \E v \in RequiredEnvs : env[v] \in {"", "None"}

\* what the local sweep of this invocation lists
LocalListing == {n \in DOMAIN localAtStart \cup {GzFile(today)} : GlobMatch(n)}

\* what the remote sweep of this invocation lists, by file name
OssListing == {k \in DOMAIN remoteAtStart : StartsWithAt(k, 1, OssPrefix) /\ EndsWith(k, GzSuffix)}

\* the entries of the sweep in progress that the loop has gone through and
\* whose name carries a date
SweptDated ==
    IF Started("clean")
    THEN {n \in LocalListing \ todo : FileDate(n) # ParseError}
    ELSE IF Started("clean_oss")
    THEN {k \in OssListing \ todo : FileDate(PathName(k)) # ParseError}
    ELSE {}

\* the calendar day of the sweep minus the window: cutoff.ord
BeforeWindow(name) == FileDate(PathName(name)) < cutoff.ord

ArtifactsOfDay(store, td) ==
    {n \in DOMAIN store : GlobMatch(n) /\ FileDate(PathName(n)) = Strptime(td)}

(***************************************************************************)
(* C1.  In a retention sweep, local or remote, run at any time of day, an  *)
(* artifact is deleted if and only if the date in its name is strictly     *)
(* before the day of the sweep minus the configured number of days; one    *)
(* dated exactly that day is retained.                                     *)
(***************************************************************************)
C1_DeletedIffBeforeWindow ==
    \A n \in SweptDated : n \in attempted <=> BeforeWindow(n)

(***************************************************************************)
(* C2.  As claimed: when the upload fails after dump and compression       *)
(* succeeded, the local retention sweep is still executed in that run.     *)
(***************************************************************************)
C2_CleanupRunsAfterUploadFailure ==
    (fault = "upload" /\ pc = "exited") => Started("clean")

(***************************************************************************)
(* C2, amended.  When the upload fails, the run ends without the local     *)
(* retention sweep: clean_local_backups is not started and no file is      *)
(* deleted.                                                                *)
(***************************************************************************)
C2_NoCleanupAfterUploadFailure ==
    fault = "upload" =>
        /\ Returned
        /\ ~Started("clean")
        /\ attempted = {}
        /\ DOMAIN localAtStart \subseteq DOMAIN local

C2_Witness ==
    /\ fault = "upload"
    /\ pc = "exited"
    /\ keepLocal = 3
    /\ Db20240306 \in DOMAIN local

(***************************************************************************)
(* C3.  In the local sweep a file whose name carries no parsable date is   *)
(* skipped without raising, and every other artifact past the retention    *)
(* window is still deleted.                                                *)
(***************************************************************************)
C3_UndatedFileSkipped ==
    (Started("clean") /\ Returned) =>
        /\ fault # "parse"
        /\ \A n \in LocalListing :
             (FileDate(n) # ParseError /\ Expired(n, cutoff)) => n \in attempted

(***************************************************************************)
(* C4.  Once dump, compression and upload have succeeded the run reports   *)
(* success, whatever happens in the local sweep.                           *)
(***************************************************************************)
C4_SuccessWhateverCleanupDoes ==
    (Started("clean") /\ Returned) =>
        /\ result = "True"
        /\ pc = "exited" => exitStatus = 0

(***************************************************************************)
(* C5.  When the dump fails, the run creates no compressed file, attempts  *)
(* no upload, removes the raw dump file, runs no local cleanup and reports *)
(* failure (execute returns False, exit status 1).                         *)
(***************************************************************************)
C5_DumpFailure ==
    (fault = "dump" /\ Returned) =>
        /\ ~Started("compress")
        /\ ~Started("upload")
        /\ ~Started("clean")
        /\ DumpFile(today) \notin DOMAIN local
        /\ local = localAtStart
        /\ remote = remoteAtStart
        /\ attempted = {}
        /\ result = "False"
        /\ pc = "exited" => exitStatus = 1

C5_Witness ==
    /\ fault = "dump"
    /\ pc = "exited"
    /\ exitStatus = 1
    /\ Started("except_unlink")

(***************************************************************************)
(* C6.  For keep_local_days >= 0, when a run ends in success the local     *)
(* directory holds {database}_{today}.sql.gz, the remote store holds       *)
(* {prefix}{database}_{today}.sql.gz, and the run created nothing else.    *)
(***************************************************************************)
C6_SuccessLeavesTodaysArtifact ==
    (proc = "backup" /\ pc = "exited" /\ result = "True" /\ keepLocal >= 0) =>
        /\ GzFile(today) \in DOMAIN local
        /\ ObjectName(GzFile(today)) \in DOMAIN remote
        /\ DOMAIN local \ DOMAIN localAtStart \subseteq {GzFile(today)}
        /\ DOMAIN remote \ DOMAIN remoteAtStart \subseteq {ObjectName(GzFile(today))}

(***************************************************************************)
(* C7.  The raw dump file is removed only after the compressed file is     *)
(* fully written: from the start of compression to the end of              *)
(* run_mysqldump there is no state where the raw file is gone while the    *)
(* .sql.gz file is missing or partly written.                              *)
(***************************************************************************)
C7_DumpRemovedOnlyAfterGzComplete ==
    (Started("compress") /\ ~Started("clean") /\ DumpFile(today) \notin DOMAIN local) =>
        /\ GzFile(today) \in DOMAIN local
        /\ local[GzFile(today)].state = "complete"

(***************************************************************************)
(* C8.  When the upload fails the run reports failure (execute returns     *)
(* False, exit status 1) and today's compressed artifact, as this run      *)
(* wrote it, is still in the local directory when the run ends.            *)
(***************************************************************************)
C8_UploadFailureKeepsLocal ==
    (fault = "upload" /\ Returned) =>
        /\ result = "False"
        /\ pc = "exited" => exitStatus = 1
        /\ GzFile(today) \in DOMAIN local
        /\ local[GzFile(today)] = Content(run, "complete")

C8_Witness ==
    /\ fault = "upload"
    /\ pc = "exited"
    /\ exitStatus = 1
    /\ GzFile(today) \in DOMAIN local

(***************************************************************************)
(* C9.  When a required setting is missing the process exits with status 1 *)
(* before anything else: no BackupManager is built, no step is started,    *)
(* no file or object is written or deleted.                                *)
(***************************************************************************)
C9_MissingSettingExitsFirst ==
    SettingAbsent =>
        /\ pc \in {"main", "exited"}
        /\ pc = "exited" => exitStatus = 1
        /\ today = << >>
        /\ steps = << >>
        /\ attempted = {}
        /\ local = localAtStart
        /\ remote = remoteAtStart

C9_Witness ==
    /\ SettingAbsent
    /\ pc = "exited"
    /\ exitStatus = 1
    /\ run = 2

(***************************************************************************)
(* C10.  Two successful runs on the same calendar date leave exactly one   *)
(* artifact of that date in the local store and exactly one in the remote  *)
(* store.                                                                  *)
(***************************************************************************)
C10_OneArtifactPerDate ==
    (/\ proc = "backup" /\ pc = "exited" /\ result = "True"
     /\ prev = Outcome("backup", "True", today)) =>
        /\ Cardinality(ArtifactsOfDay(local, today)) = 1
        /\ Cardinality(ArtifactsOfDay(remote, today)) = 1

(***************************************************************************)
(* C11.  The default run never deletes a remote object: at every point of  *)
(* a run of execute, whatever its outcome, every key the remote store held *)
(* when the run started is still there and no remote delete was called.    *)
(***************************************************************************)
C11_RunKeepsRemoteKeys ==
    proc = "backup" =>
        /\ DOMAIN remoteAtStart \subseteq DOMAIN remote
        /\ attempted \cap DOMAIN remoteAtStart = {}
        /\ ~Started("clean_oss")

C11_Witness ==
    /\ proc = "backup"
    /\ pc = "exited"
    /\ result = "True"
    /\ Key20240208 \in DOMAIN remote
    /\ Expired(PathName(Key20240208), OssCutoff(now))
    /\ ObjectName(GzFile(today)) \in DOMAIN remote

(***************************************************************************)
(* C12.  When clean_oss_backups is invoked twice in succession, on the     *)
(* same day, every delete of the first call having succeeded, the second   *)
(* call deletes nothing, raises no error and leaves the remote store as    *)
(* the first call left it.                                                 *)
(***************************************************************************)
C12_SecondOssSweepDeletesNothing ==
    (/\ proc = "oss" /\ Started("clean_oss")
     /\ prev.proc = "oss" /\ ~prevSweep.failed
     /\ prevSweep.day = SweepDay) =>
        /\ attempted = {}
        /\ fault = "none"
        /\ remote = remoteAtStart

(***************************************************************************)
(* C13.  In the remote sweep a key that does not end in .sql.gz is never   *)
(* deleted, and a key whose name carries no parsable date or whose delete  *)
(* fails does not abort the sweep: when the sweep is over no error has     *)
(* left it, every key under the prefix has been gone through, and delete   *)
(* was called for every key dated before the day of the sweep minus        *)
(* keep_oss_days.                                                          *)
(***************************************************************************)
C13_OssSweepSkipsAndGoesOn ==
    proc = "oss" =>
        /\ \A k \in attempted : EndsWith(k, GzSuffix) /\ FileDate(PathName(k)) # ParseError
        /\ \A k \in DOMAIN remoteAtStart : ~EndsWith(k, GzSuffix) => k \in DOMAIN remote
        /\ fault = "none"
        /\ pc = "exited" =>
             /\ todo = {}
             /\ \A k \in OssListing :
                  (FileDate(PathName(k)) # ParseError /\ BeforeWindow(k)) => k \in attempted

C13_Witness ==
    /\ proc = "oss"
    /\ pc = "exited"
    /\ KeyNoDate \in DOMAIN remote
    /\ KeyNotes \in DOMAIN remote
    /\ Key20240208 \in FailedDeletes
    /\ Key20240209 \in attempted
    /\ Key20240209 \notin DOMAIN remote

(***************************************************************************)
(* C14.  In the local sweep a failure to delete one expired file is        *)
(* isolated to that file: the sweep continues with the remaining files     *)
(* and delete is called for every other artifact dated before the day of   *)
(* the sweep minus keep_local_days.                                        *)
(***************************************************************************)
C14_FailedUnlinkIsolated ==
    (Started("clean") /\ Returned /\ FailedDeletes # {}) =>
        \A n \in LocalListing :
            (FileDate(n) # ParseError /\ BeforeWindow(n)) => n \in attempted

(***************************************************************************)
(* C15.  Every run goes through the steps in the order Dumping,            *)
(* Compressing, Uploading, LocalCleanup, Done: compression starts only     *)
(* after the dump succeeded, upload only after compression succeeded and   *)
(* the raw file was removed, local cleanup only after upload succeeded; a  *)
(* failure in dump, compression or upload ends the run as Failed with no   *)
(* later step started; a run that has ended is Done or Failed.             *)
(***************************************************************************)
StepsToDone == <<"dump", "compress", "unlink_dump", "upload", "clean", "done">>

IsPrefix(s, t) == Len(s) <= Len(t) /\ SubSeq(t, 1, Len(s)) = s

C15_StepOrder ==
    proc = "backup" =>
        /\ fault = "none" => IsPrefix(steps, StepsToDone)
        /\ fault = "dump" => steps \in {<<"dump">>, <<"dump", "except_unlink">>}
        /\ fault = "compress" =>
             steps \in {<<"dump", "compress">>, <<"dump", "compress", "except_unlink">>}
        /\ fault = "upload" => steps = SubSeq(StepsToDone, 1, 4)
        /\ fault = "parse" => steps = SubSeq(StepsToDone, 1, 5)
        /\ pc = "compress" => local[DumpFile(today)] = Content(run, "complete")
        /\ pc = "upload" =>
             /\ DumpFile(today) \notin DOMAIN local
             /\ local[GzFile(today)] = Content(run, "complete")
        /\ pc = "clean" => ObjectName(GzFile(today)) \in DOMAIN remote
        /\ (Returned /\ Started("dump")) =>
             /\ result \in {"True", "False"}
             /\ result = "True" <=> (steps = StepsToDone /\ fault = "none")
             /\ result = "False" <=> fault # "none"
             /\ pc = "exited" => exitStatus = (IF result = "True" THEN 0 ELSE 1)

C15_Witness ==
    /\ proc = "backup"
    /\ pc = "exited"
    /\ steps = StepsToDone
    /\ exitStatus = 0
    /\ run = 2
    /\ prev.result = "False"

(***************************************************************************)
(* C16.  Within one run mysqldump is invoked at most once and the remote   *)
(* put is attempted at most once: a failed dump or upload is not retried.  *)
(***************************************************************************)
Times(s) == Cardinality({i \in DOMAIN steps : steps[i] = s})

C16_SingleAttempt ==
    /\ Times("dump") <= 1
    /\ Times("upload") <= 1
    /\ fault = "dump" => (Times("dump") = 1 /\ pc \in {"except", "returned", "exited"})
    /\ fault = "upload" => (Times("upload") = 1 /\ pc \in {"returned", "exited"})

C16_Witness ==
    /\ pc = "exited"
    /\ fault = "upload"
    /\ Times("upload") = 1
    /\ Times("dump") = 1

(***************************************************************************)
(* C17.  A run that ends in a dump failure or a compression failure leaves *)
(* unchanged a valid compressed artifact for today's date that an earlier  *)
(* run had written.                                                        *)
(***************************************************************************)
C17_FailedRerunKeepsArtifact ==
    (/\ Returned /\ fault \in {"dump", "compress"}
     /\ GzFile(today) \in DOMAIN localAtStart
     /\ localAtStart[GzFile(today)].state = "complete") =>
        /\ GzFile(today) \in DOMAIN local
        /\ local[GzFile(today)] = localAtStart[GzFile(today)]

(***************************************************************************)
(* C18.  Whenever a run has ended, in Done or in Failed, the raw dump file *)
(* {database}_{today}.sql is not in the local directory.                   *)
(***************************************************************************)
C18_NoDumpFileAfterRun ==
    (proc = "backup" /\ Returned /\ Started("dump")) =>
        /\ DumpFile(today) \notin DOMAIN local
        /\ \A n \in DOMAIN local : ~EndsWith(n, SqlSuffix)

C18_Witness ==
    /\ proc = "backup"
    /\ pc = "exited"
    /\ fault = "compress"
    /\ Started("except_unlink")
    /\ prev.result = "True"

(***************************************************************************)
(* C19.  Within one run the calendar day used to name the artifact is the  *)
(* day used as today to compute the local retention cutoff, also when the  *)
(* clock passes midnight between the construction of the BackupManager     *)
(* and the local cleanup.                                                  *)
(***************************************************************************)
C19_OneTodayPerRun ==
    (proc = "backup" /\ Started("clean")) => SweepDay = Strptime(today)
====
